---- MODULE Spec2Model ----
(***************************************************************************)
(* A model of slm_lab/lib/viz.py: palette selection, the single-series and *)
(* mean-with-error-band chart builders, the environment-gated image export *)
(* and the two orchestration entry points plot_session and plot_trial.     *)
(*                                                                         *)
(* Colour strings are sequences of one-character strings, so that the text *)
(* replacement of lower_opacity is computed and not assumed.  File paths   *)
(* are strings built with \o exactly as the f-strings build them.          *)
(***************************************************************************)
EXTENDS Integers, Sequences, FiniteSets, TLC

(***************************************************************************)
(* Bounds of the model.                                                    *)
(***************************************************************************)
\* largest series count handed to get_palette
MaxAeb == 11
\* longest time axis handed to the chart builders
MaxLen == 2
\* largest magnitude of a mean value
MaxVal == 1
\* largest standard deviation
MaxStd == 1

VARIABLES
    PY_ENV,     \* os.environ['PY_ENV']: its value, or Unset when the key is absent
    called,     \* the `called` flag of the ps.once wrapper orca_warn_once
    warnings,   \* how many times logger.warning has been invoked
    op,         \* the top-level call that has just run, "idle" once its caller went on
    prepath,    \* meta_spec['prepath'] of that call ("" when it has none)
    df_mode,    \* df_mode of that call ("" when it has none)
    raised,     \* the exception that call propagated to its caller, or "none"
    exports,    \* the save_image calls that call made, in order
    pre,        \* called/warnings as they were when that call began
    aeb_count,  \* the argument of the most recent get_palette call
    palette,    \* what it returned
    inputs,     \* the series handed to the most recent chart builder call
    fig         \* the figure it returned

vars == <<PY_ENV, called, warnings, op, prepath, df_mode, raised, exports, pre,
          aeb_count, palette, inputs, fig>>

exportVars == <<PY_ENV, called, warnings, prepath, df_mode, raised, exports, pre>>
chartVars == <<aeb_count, palette, inputs, fig>>

(***************************************************************************)
(* Text.                                                                   *)
(***************************************************************************)
DigitChar(d) == <<"0", "1", "2", "3", "4", "5", "6", "7", "8", "9">>[d + 1]

\* str(n) of a non-negative integer, as a sequence of characters
RECURSIVE Str(_)
Str(n) == IF n < 10 THEN <<DigitChar(n)>>
          ELSE Str(n \div 10) \o <<DigitChar(n % 10)>>

\* f'{opacity}' of a float given in tenths: 2 is 0.2, 10 is 1.0
FormatTenths(t) == Str(t \div 10) \o <<".">> \o <<DigitChar(t % 10)>>

IsPrefixAt(s, old, i) ==
    /\ i + Len(old) - 1 <= Len(s)
    /\ \A k \in 1..Len(old) : s[i + k - 1] = old[k]

\* str.replace(old, new): every non-overlapping occurrence, left to right
RECURSIVE ReplaceFrom(_, _, _, _)
ReplaceFrom(s, old, new, i) ==
    IF i > Len(s) THEN <<>>
    ELSE IF IsPrefixAt(s, old, i)
         THEN new \o ReplaceFrom(s, old, new, i + Len(old))
         ELSE <<s[i]>> \o ReplaceFrom(s, old, new, i + 1)

Replace(s, old, new) == ReplaceFrom(s, old, new, 1)

(***************************************************************************)
(* colorlover: the qualitative Set2 scales and interp.                     *)
(***************************************************************************)
\* the eight Set2 colours; the scale of k colours is their first k
Set2 == << <<102, 194, 165>>, <<252, 141, 98>>, <<141, 160, 203>>,
           <<231, 138, 195>>, <<166, 216, 84>>, <<255, 217, 47>>,
           <<229, 196, 148>>, <<179, 179, 179>> >>

RgbString(c) ==
    <<"r", "g", "b", "(">> \o Str(c[1]) \o <<",">> \o Str(c[2]) \o <<",">>
        \o Str(c[3]) \o <<")">>

\* cl.scales[key]['qual']['Set2']: Set2 exists with 3 to 8 colours only
ScalesSet2(key) ==
    IF \E k \in 3..8 : Str(k) = key
    THEN LET k == CHOOSE k \in 3..8 : Str(k) = key
         IN  [raised |-> "none", palette |-> [i \in 1..k |-> RgbString(Set2[i])]]
    ELSE [raised |-> "KeyError", palette |-> <<>>]

\* cl.interp(scl, r) for an integer r: r colours at the positions
\* x * (len(scl) - 1) / r, x = 0 .. r-1, each between two neighbours of scl.
\* The colour is kept as its two neighbours and the fraction between them.
Interp(scl, r) ==
    LET SCL_FI == Len(scl) - 1
    IN  [x1 \in 1..r |->
            LET pos == (x1 - 1) * SCL_FI
                c_i == pos \div r
            IN  [from |-> scl[c_i + 1], to |-> scl[c_i + 2],
                 num |-> pos % r, den |-> r]]

(***************************************************************************)
(* get_palette, lower_opacity                                              *)
(***************************************************************************)
Max(a, b) == IF a >= b THEN a ELSE b

\* get_palette without max(3, aeb_count): the 8-colour scale for every small count
get_palette_bad(n) ==
    IF n <= 8
    THEN ScalesSet2(Str(8))
    ELSE [raised |-> "none", palette |-> Interp(ScalesSet2(Str(8)).palette, n)]

get_palette(n) ==
    IF n <= 8
    THEN ScalesSet2(Str(Max(3, n)))
    ELSE [raised |-> "none", palette |-> Interp(ScalesSet2(Str(8)).palette, n)]

lower_opacity(rgb, opacity) ==
    Replace(Replace(rgb, <<"r", "g", "b", "(">>, <<"r", "g", "b", "a", "(">>),
            <<")">>, <<",">> \o FormatTenths(opacity) \o <<")">>)

(***************************************************************************)
(* Series arithmetic and list operations.                                  *)
(***************************************************************************)
\* the band drawn two deviations above the mean
SeriesAdd_bad(a, b) == [i \in 1..Len(a) |-> a[i] + 2 * b[i]]

\* element-wise a + b, a - b of two pandas series with the same index
SeriesAdd(a, b) == [i \in 1..Len(a) |-> a[i] + b[i]]
SeriesSub(a, b) == [i \in 1..Len(a) |-> a[i] - b[i]]

\* the slice without its step: s[:] for s[::-1]
Reversed_bad(s) == s

\* s[::-1]
Reversed(s) == [i \in 1..Len(s) |-> s[Len(s) + 1 - i]]

(***************************************************************************)
(* create_layout, plot_sr, plot_mean_sr                                    *)
(***************************************************************************)
create_layout(title, y_title, x_title) ==
    [title |-> title, y_title |-> y_title, x_title |-> x_title,
     width |-> 500, height |-> 600]

\* plot(fig) renders the figure; `shown` records that it was called
plot_sr(sr, time_sr, title, y_title, x_title) ==
    LET x == time_sr
        color == get_palette(1).palette[1]
        main_trace == [x |-> x, y |-> sr, mode |-> "lines", showlegend |-> FALSE,
                       line_color |-> color, line_width |-> 1,
                       fill |-> "none", fillcolor |-> <<>>]
    IN  [data |-> <<main_trace>>,
         layout |-> create_layout(title, y_title, x_title),
         shown |-> TRUE]

\* ms is what util.calc_srs_mean_std(sr_list) returns: the mean series and the
\* standard-deviation series of the sessions' series
plot_mean_sr(ms, time_sr, title, y_title, x_title) ==
    LET mean_sr == ms.mean
        std_sr == ms.std
        max_sr == SeriesAdd(mean_sr, std_sr)
        min_sr == SeriesSub(mean_sr, std_sr)
        max_y == max_sr
        min_y == min_sr
        x == time_sr
        color == get_palette(1).palette[1]
        main_trace == [x |-> x, y |-> mean_sr, mode |-> "lines", showlegend |-> FALSE,
                       line_color |-> color, line_width |-> 1,
                       fill |-> "none", fillcolor |-> <<>>]
        envelope_trace == [x |-> x \o Reversed(x), y |-> max_y \o Reversed(min_y),
                           mode |-> "default", showlegend |-> FALSE,
                           line_color |-> <<"r", "g", "b", "a", "(", "0", ",", " ",
                                            "0", ",", " ", "0", ",", " ", "0", ")">>,
                           line_width |-> 0,
                           fill |-> "tozerox", fillcolor |-> lower_opacity(color, 2)]
    IN  [data |-> <<main_trace, envelope_trace>>,
         layout |-> create_layout(title, y_title, x_title),
         shown |-> FALSE]

(***************************************************************************)
(* Image export: orca_warn_once, util.smart_path, save_image               *)
(***************************************************************************)
\* the value of PY_ENV when os.environ has no such key
Unset == "<unset>"

\* outcomes of pio.write_image: it returns, or it raises an Exception
WriteOutcomes == {"ok", "raise"}

\* the warning without ps.once
orca_warn_once_bad(s) == [s EXCEPT !.warnings = s.warnings + 1]

\* ps.once(lambda e: logger.warning(...)): the wrapped function runs on the
\* first call only
orca_warn_once(s) ==
    IF ~s.called
    THEN [s EXCEPT !.warnings = s.warnings + 1, !.called = TRUE]
    ELSE s

\* util.smart_path resolves a relative path under the repository root
ROOT_DIR == "/slm_lab_root"
smart_path(data_path) == ROOT_DIR \o "/" \o data_path

\* the save_image call as it is logged in `exports`
Export(figure, filepath, invoked, file, warned) ==
    [path |-> filepath, traces |-> Len(figure.data),
     y |-> figure.layout.y_title, x |-> figure.layout.x_title,
     shown |-> figure.shown, series |-> figure.data[1].y,
     invoked |-> invoked, file |-> file, warned |-> warned]

Log(s, e) == [s EXCEPT !.exports = Append(s.exports, e)]

\* save_image without the test-environment return
save_image_always(s, env, figure, filepath, write) ==
    IF env = Unset
    THEN [Log(s, Export(figure, filepath, FALSE, "", FALSE)) EXCEPT !.raised = "KeyError"]
    ELSE LET resolved == smart_path(filepath)
         IN  IF write = "ok"
             THEN Log(s, Export(figure, filepath, TRUE, resolved, FALSE))
             ELSE LET w == orca_warn_once(s)
                  IN  Log(w, Export(figure, filepath, TRUE, "", w.warnings # s.warnings))

\* save_image without the try/except around pio.write_image
save_image_uncaught(s, env, figure, filepath, write) ==
    IF env = Unset
    THEN [Log(s, Export(figure, filepath, FALSE, "", FALSE)) EXCEPT !.raised = "KeyError"]
    ELSE IF env = "test"
    THEN Log(s, Export(figure, filepath, FALSE, "", FALSE))
    ELSE LET resolved == smart_path(filepath)
         IN  IF write = "ok"
             THEN Log(s, Export(figure, filepath, TRUE, resolved, FALSE))
             ELSE [Log(s, Export(figure, filepath, TRUE, "", FALSE))
                      EXCEPT !.raised = "Exception"]

\* s is [called, warnings, raised, exports]; env is os.environ.get('PY_ENV'),
\* Unset when the key is absent, in which case the subscript raises KeyError;
\* write is what pio.write_image does when it is reached
save_image(s, env, figure, filepath, write) ==
    IF env = Unset
    THEN [Log(s, Export(figure, filepath, FALSE, "", FALSE)) EXCEPT !.raised = "KeyError"]
    ELSE IF env = "test"
    THEN Log(s, Export(figure, filepath, FALSE, "", FALSE))
    ELSE LET resolved == smart_path(filepath)
         IN  IF write = "ok"
             THEN Log(s, Export(figure, filepath, TRUE, resolved, FALSE))
             ELSE LET w == orca_warn_once(s)
                  IN  Log(w, Export(figure, filepath, TRUE, "", w.warnings # s.warnings))

(***************************************************************************)
(* plot_session, plot_trial                                                *)
(***************************************************************************)
session_pairs ==
    << <<"mean_returns", "frames">>, <<"strengths", "frames">>,
       <<"sample_efficiencies", "frames">>, <<"training_efficiencies", "opt_steps">>,
       <<"stabilities", "frames">> >>

training_pairs ==
    << <<"loss", "total_t">>, <<"explore_var", "total_t">>, <<"entropy", "total_t">> >>

trial_pairs ==
    << <<"mean_returns", "frames">>, <<"strengths", "frames">>,
       <<"sample_efficiencies", "frames">>, <<"training_efficiencies", "opt_steps">>,
       <<"stabilities", "frames">>, <<"consistencies", "frames">> >>

\* the session path without df_mode
session_path_bad(pp, mode, name, time) ==
    pp \o "_session_graph_" \o name \o "_vs_" \o time \o ".png"

\* f'{prepath}_session_graph_{df_mode}_{name}_vs_{time}.png'
session_path(pp, mode, name, time) ==
    pp \o "_session_graph_" \o mode \o "_" \o name \o "_vs_" \o time \o ".png"

\* f'{prepath}_trial_graph_{name}_vs_{time}.png'
trial_path(pp, name, time) ==
    pp \o "_trial_graph_" \o name \o "_vs_" \o time \o ".png"

\* a loop that gives up after the first failed write
SaveEach_bad(calls, s, env, outcomes) ==
    LET RECURSIVE Go(_, _)
        Go(i, st) ==
            IF i > Len(calls) THEN st
            ELSE IF i > 1 /\ outcomes[Len(st.exports)] = "raise" THEN st
            ELSE Go(i + 1, save_image(st, env, calls[i].fig, calls[i].path,
                                      outcomes[Len(st.exports) + 1]))
    IN  Go(1, s)

\* the body of a `for name, time in name_time_pairs` loop: calls[i] holds the
\* figure built for pair i and the path it is saved to; an exception that
\* save_image lets through ends the loop and the function
SaveEach(calls, s, env, outcomes) ==
    LET RECURSIVE Go(_, _)
        Go(i, st) ==
            IF i > Len(calls) \/ st.raised # "none" THEN st
            ELSE Go(i + 1, save_image(st, env, calls[i].fig, calls[i].path,
                                      outcomes[Len(st.exports) + 1]))
    IN  Go(1, s)

\* plot_session without the early return for df_mode 'eval'
plot_session_bad(s, env, session_spec, session_metrics, session_df, mode, outcomes) ==
    LET meta_spec == session_spec.meta
        pp == meta_spec.prepath
        title == "session graph: " \o session_spec.name \o " t"
                    \o ToString(meta_spec.trial) \o " s" \o ToString(meta_spec.session)
        local_metrics == session_metrics.local
        all_pairs == session_pairs \o training_pairs
        calls == [k \in 1..Len(all_pairs) |->
                    LET name == all_pairs[k][1]
                        time == all_pairs[k][2]
                        src == IF k <= Len(session_pairs) THEN local_metrics ELSE session_df
                    IN  [fig |-> plot_sr(src[name], src[time], title, name, time),
                         path |-> session_path(pp, mode, name, time)]]
    IN  SaveEach(calls, s, env, outcomes)

plot_session(s, env, session_spec, session_metrics, session_df, mode, outcomes) ==
    LET meta_spec == session_spec.meta
        pp == meta_spec.prepath
        title == "session graph: " \o session_spec.name \o " t"
                    \o ToString(meta_spec.trial) \o " s" \o ToString(meta_spec.session)
        local_metrics == session_metrics.local
        calls1 == [k \in 1..Len(session_pairs) |->
                    LET name == session_pairs[k][1]
                        time == session_pairs[k][2]
                    IN  [fig |-> plot_sr(local_metrics[name], local_metrics[time],
                                         title, name, time),
                         path |-> session_path(pp, mode, name, time)]]
        s1 == SaveEach(calls1, s, env, outcomes)
        calls2 == [k \in 1..Len(training_pairs) |->
                    LET name == training_pairs[k][1]
                        time == training_pairs[k][2]
                    IN  [fig |-> plot_sr(session_df[name], session_df[time],
                                         title, name, time),
                         path |-> session_path(pp, mode, name, time)]]
    IN  IF s1.raised # "none" THEN s1
        ELSE IF mode = "eval" THEN s1
        ELSE SaveEach(calls2, s1, env, outcomes)

\* plot_trial that singles out 'stabilities' for 'consistencies'
plot_trial_bad(s, env, trial_spec, trial_metrics, outcomes) ==
    LET meta_spec == trial_spec.meta
        pp == meta_spec.prepath
        title == "trial graph: " \o trial_spec.name \o " t" \o ToString(meta_spec.trial)
                    \o " " \o ToString(meta_spec.max_session) \o " sessions"
        local_metrics == trial_metrics.local
        calls == [k \in 1..Len(trial_pairs) |->
                    LET name == trial_pairs[k][1]
                        time == trial_pairs[k][2]
                    IN  [fig |-> IF name = "stabilities"
                                 THEN plot_sr(local_metrics[name].mean, local_metrics[time],
                                              title, name, time)
                                 ELSE plot_mean_sr(
                                        IF name = "consistencies"
                                        THEN [mean |-> local_metrics[name],
                                              std |-> local_metrics[name]]
                                        ELSE local_metrics[name],
                                        local_metrics[time], title, name, time),
                         path |-> trial_path(pp, name, time)]]
    IN  SaveEach(calls, s, env, outcomes)

\* local_metrics[name] of a trial is the list of the sessions' series, which
\* plot_mean_sr hands to util.calc_srs_mean_std; it is given here as the
\* [mean, std] pair that call returns.  'consistencies' is a single series.
plot_trial(s, env, trial_spec, trial_metrics, outcomes) ==
    LET meta_spec == trial_spec.meta
        pp == meta_spec.prepath
        title == "trial graph: " \o trial_spec.name \o " t" \o ToString(meta_spec.trial)
                    \o " " \o ToString(meta_spec.max_session) \o " sessions"
        local_metrics == trial_metrics.local
        calls == [k \in 1..Len(trial_pairs) |->
                    LET name == trial_pairs[k][1]
                        time == trial_pairs[k][2]
                    IN  [fig |-> IF name = "consistencies"
                                 THEN plot_sr(local_metrics[name], local_metrics[time],
                                              title, name, time)
                                 ELSE plot_mean_sr(local_metrics[name], local_metrics[time],
                                                   title, name, time),
                         path |-> trial_path(pp, name, time)]]
    IN  SaveEach(calls, s, env, outcomes)

(***************************************************************************)
(* The callers' data.                                                      *)
(***************************************************************************)
Prepaths == {"data/a", "data/b"}
DfModes == {"eval", "train", "train_loss"}

\* a series of MaxLen points that differs from metric to metric
Ramp(k) == [i \in 1..MaxLen |-> k + i]

Spec_(pp) ==
    [name |-> "dqn", meta |-> [prepath |-> pp, trial |-> 0, session |-> 0,
                               max_session |-> 2]]

SessionMetrics ==
    [local |-> [mean_returns |-> Ramp(1), strengths |-> Ramp(2),
                sample_efficiencies |-> Ramp(3), training_efficiencies |-> Ramp(4),
                stabilities |-> Ramp(5), frames |-> Ramp(10), opt_steps |-> Ramp(11)]]

SessionDf ==
    [loss |-> Ramp(6), explore_var |-> Ramp(7), entropy |-> Ramp(8),
     total_t |-> Ramp(12)]

MeanStd(k) == [mean |-> Ramp(k), std |-> [i \in 1..MaxLen |-> 1]]

TrialMetrics ==
    [local |-> [mean_returns |-> MeanStd(1), strengths |-> MeanStd(2),
                sample_efficiencies |-> MeanStd(3), training_efficiencies |-> MeanStd(4),
                stabilities |-> MeanStd(5), consistencies |-> Ramp(9),
                frames |-> Ramp(10), opt_steps |-> Ramp(11)]]

\* series, standard deviations and time axes of n points
Series(n) == [1..n -> (0 - MaxVal)..MaxVal]
Stds(n) == [1..n -> 0..MaxStd]
TimeAxes(n) ==
    {t \in [1..n -> 0..MaxLen] : \A i \in 1..n : \A j \in 1..n : i < j => t[i] < t[j]}

(***************************************************************************)
(* The state machine.  The module is single-threaded: a top-level call     *)
(* starts when no other is running, runs to its end in one step, and its   *)
(* caller then goes on (Return), which leaves only the module-level state: *)
(* the environment and the once-wrapper of the warning.                    *)
(***************************************************************************)
NoFig == [data |-> <<>>, layout |-> create_layout("", "", ""), shown |-> FALSE]
NoInputs == [mean |-> <<>>, std |-> <<>>, time |-> <<>>]
NoPalette == [raised |-> "none", palette |-> <<>>]

Init ==
    /\ PY_ENV \in {Unset, "test", "development"}
    /\ called = FALSE
    /\ warnings = 0
    /\ op = "idle"
    /\ prepath = ""
    /\ df_mode = ""
    /\ raised = "none"
    /\ exports = <<>>
    /\ pre = [called |-> FALSE, warnings |-> 0]
    /\ aeb_count = 0
    /\ palette = NoPalette
    /\ inputs = NoInputs
    /\ fig = NoFig

\* the module state a call starts from
Entry == [called |-> called, warnings |-> warnings, raised |-> "none", exports |-> <<>>]

\* the call `name` ran from Entry and left r
Returns(name, pp, mode, r) ==
    /\ op' = name
    /\ prepath' = pp
    /\ df_mode' = mode
    /\ pre' = [called |-> called, warnings |-> warnings]
    /\ called' = r.called
    /\ warnings' = r.warnings
    /\ raised' = r.raised
    /\ exports' = r.exports
    /\ UNCHANGED PY_ENV

SaveImage ==
    /\ op = "idle"
    /\ \E pp \in Prepaths, w \in WriteOutcomes, two \in BOOLEAN :
        LET figure == IF two
                      THEN plot_mean_sr(MeanStd(1), Ramp(10), "t", "mean_returns", "frames")
                      ELSE plot_sr(Ramp(1), Ramp(10), "t", "mean_returns", "frames")
        IN  /\ Returns("save_image", pp, "",
                       save_image(Entry, PY_ENV, figure, pp \o ".png", w))
            /\ UNCHANGED chartVars

PlotSession ==
    /\ op = "idle"
    /\ \E pp \in Prepaths, mode \in DfModes :
        \E outcomes \in [1..(Len(session_pairs) + Len(training_pairs)) -> WriteOutcomes] :
            /\ Returns("plot_session", pp, mode,
                       plot_session(Entry, PY_ENV, Spec_(pp), SessionMetrics, SessionDf,
                                    mode, outcomes))
            /\ UNCHANGED chartVars

PlotTrial ==
    /\ op = "idle"
    /\ \E pp \in Prepaths :
        \E outcomes \in [1..Len(trial_pairs) -> WriteOutcomes] :
            /\ Returns("plot_trial", pp, "",
                       plot_trial(Entry, PY_ENV, Spec_(pp), TrialMetrics, outcomes))
            /\ UNCHANGED chartVars

GetPalette ==
    /\ op = "idle"
    /\ \E n \in 0..MaxAeb :
        /\ aeb_count' = n
        /\ palette' = get_palette(n)
        /\ op' = "get_palette"
        /\ UNCHANGED <<exportVars, inputs, fig>>

PlotSr ==
    /\ op = "idle"
    /\ \E n \in 0..MaxLen :
        \E sr \in Series(n), t \in TimeAxes(n) :
            /\ inputs' = [mean |-> sr, std |-> <<>>, time |-> t]
            /\ fig' = plot_sr(sr, t, "t", "y", "x")
            /\ op' = "plot_sr"
            /\ UNCHANGED <<exportVars, aeb_count, palette>>

PlotMeanSr ==
    /\ op = "idle"
    /\ \E n \in 0..MaxLen :
        \E m \in Series(n), sd \in Stds(n), t \in TimeAxes(n) :
            /\ inputs' = [mean |-> m, std |-> sd, time |-> t]
            /\ fig' = plot_mean_sr([mean |-> m, std |-> sd], t, "t", "y", "x")
            /\ op' = "plot_mean_sr"
            /\ UNCHANGED <<exportVars, aeb_count, palette>>

\* the caller goes on: what the call returned or logged is gone, the
\* environment and the once-wrapper stay
Return ==
    /\ op # "idle"
    /\ op' = "idle"
    /\ prepath' = ""
    /\ df_mode' = ""
    /\ raised' = "none"
    /\ exports' = <<>>
    /\ pre' = [called |-> called, warnings |-> warnings]
    /\ aeb_count' = 0
    /\ palette' = NoPalette
    /\ inputs' = NoInputs
    /\ fig' = NoFig
    /\ UNCHANGED <<PY_ENV, called, warnings>>

Next ==
    \/ SaveImage
    \/ PlotSession
    \/ PlotTrial
    \/ GetPalette
    \/ PlotSr
    \/ PlotMeanSr
    \/ Return

Spec == Init /\ [][Next]_vars

(***************************************************************************)
(* Properties.                                                             *)
(***************************************************************************)
Range(f) == {f[k] : k \in DOMAIN f}

\* pio.write_image was reached for this save_image call and raised
Failed(e) == e.invoked /\ e.file = ""

\* the (metric, time axis) pairs of the logged save_image calls, in order
Pairs(es) == [k \in 1..Len(es) |-> <<es[k].y, es[k].x>>]

FirstFive ==
    << <<"mean_returns", "frames">>, <<"strengths", "frames">>,
       <<"sample_efficiencies", "frames">>, <<"training_efficiencies", "opt_steps">>,
       <<"stabilities", "frames">> >>
LastThree ==
    << <<"loss", "total_t">>, <<"explore_var", "total_t">>, <<"entropy", "total_t">> >>

\* the pairs a complete run of the call exports, written out
Expected(name, mode) ==
    IF name = "plot_trial" THEN FirstFive \o << <<"consistencies", "frames">> >>
    ELSE IF mode = "eval" THEN FirstFive
    ELSE FirstFive \o LastThree

\* C1: get_palette(n) returns max(3, n) colours when n <= 8 and n colours
\* when n > 8, each of the latter interpolated between two neighbouring
\* colours of the 8-colour Set2 scale.
C1_PaletteSize ==
    op = "get_palette" =>
        /\ palette.raised = "none"
        /\ Len(palette.palette) =
              (IF aeb_count <= 8 THEN (IF aeb_count < 3 THEN 3 ELSE aeb_count)
               ELSE aeb_count)
        /\ aeb_count <= 8 =>
              \A i \in 1..Len(palette.palette) :
                  palette.palette[i] = RgbString(Set2[i])
        /\ aeb_count > 8 =>
              \A i \in 1..Len(palette.palette) :
                  \E j \in 1..7 :
                      /\ palette.palette[i].from = RgbString(Set2[j])
                      /\ palette.palette[i].to = RgbString(Set2[j + 1])

C1_Witness ==
    /\ op = "get_palette"
    /\ aeb_count > 8
    /\ Len(palette.palette) = aeb_count
    /\ \E i \in 1..aeb_count : palette.palette[i].num # 0

C3_TestNoOp ==
    (PY_ENV = "test" /\ op \in {"save_image", "plot_session", "plot_trial"}) =>
        /\ raised = "none"
        /\ \A k \in 1..Len(exports) :
            /\ ~exports[k].invoked
            /\ exports[k].file = ""
            /\ ~exports[k].warned
        /\ called = pre.called
        /\ warnings = pre.warnings

C3_Witness ==
    /\ PY_ENV = "test"
    /\ op = "save_image"
    /\ Len(exports) = 1
    /\ exports[1].traces = 2

\* C4: the export-failure warning is logged at most once per process: by the
\* first save_image call whose image write fails, and by no later one.
C4_WarnOnce ==
    LET F == {k \in 1..Len(exports) : Failed(exports[k])}
        W == {k \in 1..Len(exports) : exports[k].warned}
    IN  /\ warnings <= 1
        /\ called <=> warnings = 1
        /\ W \subseteq F
        /\ warnings = pre.warnings + Cardinality(W)
        /\ F # {} =>
              IF pre.called THEN W = {}
              ELSE W = {CHOOSE k \in F : \A j \in F : k <= j}

C4_Witness ==
    /\ pre.called
    /\ op = "plot_session"
    /\ Cardinality({k \in 1..Len(exports) : Failed(exports[k])}) >= 2
    /\ warnings = 1

C7_TrialCharts ==
    (op = "plot_trial" /\ PY_ENV # Unset) =>
        /\ Len(exports) = 6
        /\ Pairs(exports) = FirstFive \o << <<"consistencies", "frames">> >>
        /\ \A k \in 1..5 : exports[k].traces = 2 /\ ~exports[k].shown
        /\ exports[6].traces = 1
        /\ exports[6].shown
        /\ exports[6].series = TrialMetrics.local.consistencies

C7_Witness ==
    /\ op = "plot_trial"
    /\ Len(exports) = 6
    /\ exports[5].traces = 2
    /\ exports[6].traces = 1
    /\ exports[6].file # ""

\* C8: outside the test environment a failed image write does not end the
\* loops of plot_session and plot_trial: every pair is exported, the image
\* writer is reached once for each, in list order, and the call returns
\* normally, also when every write fails.
C8_BestEffort ==
    (/\ op \in {"plot_session", "plot_trial"}
     /\ PY_ENV \notin {Unset, "test"}
     /\ \E k \in 1..Len(exports) : Failed(exports[k])) =>
        /\ raised = "none"
        /\ Pairs(exports) = Expected(op, df_mode)
        /\ \A k \in 1..Len(exports) : exports[k].invoked

C8_Witness ==
    /\ op = "plot_session"
    /\ PY_ENV = "development"
    /\ Len(exports) = 8
    /\ Failed(exports[1])
    /\ ~Failed(exports[2])
    /\ \A k \in 3..8 : Failed(exports[k])
    /\ raised = "none"

\* C9: for a time axis of n points the envelope trace of plot_mean_sr is a
\* closed band of 2n points: x is the time axis followed by the time axis
\* reversed, y is the upper envelope followed by the lower envelope reversed,
\* so points k and 2n-1-k (counted from 0) share their x, and the fill colour
\* is the main trace's colour with opacity 0.2.
C9_ClosedBand ==
    op = "plot_mean_sr" =>
        LET n == Len(inputs.time)
            t == inputs.time
            e == fig.data[2]
            c == fig.data[1].line_color
        IN  /\ Len(fig.data) = 2
            /\ Len(e.x) = 2 * n
            /\ Len(e.y) = 2 * n
            /\ \A k \in 1..n :
                /\ e.x[k] = t[k]
                /\ e.x[n + k] = t[n + 1 - k]
                /\ e.y[k] = inputs.mean[k] + inputs.std[k]
                /\ e.y[n + k] = inputs.mean[n + 1 - k] - inputs.std[n + 1 - k]
            /\ \A k \in 1..(2 * n) : e.x[k] = e.x[2 * n + 1 - k]
            /\ e.fill = "tozerox"
            /\ c = <<"r", "g", "b", "(", "1", "0", "2", ",", "1", "9", "4", ",",
                     "1", "6", "5", ")">>
            /\ e.fillcolor = <<"r", "g", "b", "a">> \o SubSeq(c, 4, Len(c) - 1)
                                \o <<",", "0", ".", "2", ")">>

C9_Witness ==
    /\ op = "plot_mean_sr"
    /\ Len(inputs.time) = 2
    /\ fig.data[2].x = <<0, 2, 2, 0>>
    /\ fig.data[2].y = <<1, 0, 0, -1>>

\* the paths a complete run of the call hands to save_image
PathsOf(name, pp, mode) ==
    LET e0 == [called |-> FALSE, warnings |-> 0, raised |-> "none", exports |-> <<>>]
        ok == [k \in 1..8 |-> "ok"]
        r == IF name = "plot_trial"
             THEN plot_trial(e0, "development", Spec_(pp), TrialMetrics, ok)
             ELSE plot_session(e0, "development", Spec_(pp), SessionMetrics, SessionDf,
                               mode, ok)
    IN  {r.exports[k].path : k \in 1..Len(r.exports)}

Calls == {<<"plot_trial", "">>} \cup {<<"plot_session", m>> : m \in DfModes}

\* C10: the paths one call of plot_session or plot_trial hands to save_image
\* are pairwise distinct, and none of them is a path that plot_trial, or
\* plot_session with another df_mode, produces for the same prepath.
C10_DistinctPaths ==
    op \in {"plot_session", "plot_trial"} =>
        /\ \A i \in 1..Len(exports) : \A j \in 1..Len(exports) :
              i # j => exports[i].path # exports[j].path
        /\ \A c \in Calls :
              c # <<op, df_mode>> =>
                  \A k \in 1..Len(exports) :
                      exports[k].path \notin PathsOf(c[1], prepath, c[2])

C10_Witness ==
    /\ op = "plot_session"
    /\ df_mode = "train_loss"
    /\ Len(exports) = 8
    /\ exports[6].path = "data/a_session_graph_train_loss_loss_vs_total_t.png"

====
